---- MODULE Spec2Model ----
(***************************************************************************)
(* infrasys create-infra: the provisioning pipeline of                     *)
(* tools/infrasys/src/{main,root,s3,shared}.rs as a state machine.         *)
(*                                                                         *)
(* One behaviour is a sequence of runs of create_infra.  Within a run the  *)
(* program counter pc walks the statements of create_infra for the         *)
(* repository entry i; every cloud request and every tuftool subprocess is *)
(* one step, appended to log, and may be rejected.  The cloud, the local   *)
(* root document and the lock file are the world the runs share.           *)
(*                                                                         *)
(* Strings that the code inspects character by character (the S3 prefix,   *)
(* the thresholds) are sequences of one-character strings; strings built   *)
(* by format! are the concatenation of their parts.  Option<T> is a        *)
(* sequence of length 0 (None) or 1 (Some).                                *)
(***************************************************************************)
EXTENDS Integers, Sequences, FiniteSets, TLC

\* ---------------------------------------------------------------- bounds
\* Largest number of entries in the repo map of the input configuration.
MaxRepos == 2
\* Largest number of runs of create_infra in one behaviour.
MaxRuns == 2
\* Largest number of describe-stacks responses that are not CREATE_COMPLETE
\* answered during one readiness poll.
MaxPolls == 1

\* ---------------------------------------------------------------- Option
None == <<>>

Some(v) == <<v>>

IsSome(o) == Len(o) > 0

IsNone(o) == Len(o) = 0

Unwrap(o) == o[1]

\* ---------------------------------------------------------------- strings
StartsWith(s, p) == Len(s) >= Len(p) /\ SubSeq(s, 1, Len(p)) = p

EndsWith(s, p) == Len(s) >= Len(p) /\ SubSeq(s, Len(s) - Len(p) + 1, Len(s)) = p

\* s3::format_prefix.  A prefix that starts with '/' is returned as it is.
\* Otherwise '/' is put in front; the two slices that would strip a trailing
\* "/" or "/*" are computed and dropped (statements, not assignments), so the
\* value returned is the unstripped one.
format_prefix(prefix) ==
    IF StartsWith(prefix, <<"/">>)
    THEN prefix
    ELSE LET formatted == <<"/">> \o prefix
             stripped1 == IF EndsWith(formatted, <<"/">>)
                          THEN SubSeq(formatted, 1, Len(formatted) - 1)
                          ELSE formatted
             stripped2 == IF EndsWith(formatted, <<"/", "*">>)
                          THEN SubSeq(formatted, 1, Len(formatted) - 2)
                          ELSE formatted
         IN formatted

Digits == <<"0", "1", "2", "3", "4", "5", "6", "7", "8", "9">>

IsDigit(c) == \E d \in 1..10 : Digits[d] = c

DigitVal(c) == (CHOOSE d \in 1..10 : Digits[d] = c) - 1

RECURSIVE DecVal(_)
DecVal(s) == IF Len(s) = 0 THEN 0 ELSE 10 * DecVal(SubSeq(s, 1, Len(s) - 1)) + DigitVal(s[Len(s)])

\* str::parse::<usize>: an optional leading '+', then one or more decimal
\* digits; anything else (empty, a '-' sign, a letter) is an error.
\* The result is Some(value) or None (ParseIntError).
ParseUsize(s) ==
    LET body == IF StartsWith(s, <<"+">>) THEN SubSeq(s, 2, Len(s)) ELSE s
    IN IF Len(body) > 0 /\ \A k \in 1..Len(body) : IsDigit(body[k])
       THEN Some(DecVal(body))
       ELSE None

\* ---------------------------------------------------------------- data
\* Region::default().name(): the region every init, expire and set-threshold
\* subprocess runs with.
DefaultRegion == "default-region"

\* Regions that Region::from_str accepts.
ValidRegions == {"us-west-2", "eu-west-1"}

\* SigningKeyConfig, a closed set of variants.  key_id and config are fields
\* of the kms variant only (None in the other two).
KeyFile == [variant |-> "file", key_id |-> None, config |-> None]

KeySsm == [variant |-> "ssm", key_id |-> None, config |-> None]

KeyKms(kid, conf) == [variant |-> "kms", key_id |-> kid, config |-> conf]

\* KMSKeyConfig.available_keys: key id -> region.
Avail(m) == Some([available_keys |-> m])

Keys0 == [k \in {} |-> "us-west-2"]

Keys1 == [k \in {"k1"} |-> "us-west-2"]

Keys12 == [k \in {"k1", "k2"} |-> IF k = "k1" THEN "us-west-2" ELSE "eu-west-1"]

Keys3 == [k \in {"k3"} |-> "eu-west-1"]

Keys34 == [k \in {"k3", "k4"} |-> IF k = "k3" THEN "eu-west-1" ELSE "us-west-2"]

\* A bucket-policy statement that is on the bucket before the run.
OldStatement ==
    [Effect |-> "Deny", Principal |-> "*", Action |-> "s3:DeleteObject",
     Resource |-> <<"arn:aws:s3:::", "b1", "/", "*">>,
     Condition |-> [op |-> "Bool", key |-> "aws:SecureTransport", value |-> "false"]]

\* A policy document: its Version and its Statement member, which is an
\* array, a single object, or absent.
PolicyDoc(version, shape, statements) ==
    [Version |-> version, shape |-> shape, Statement |-> statements]

\* RepoConfig of pubsys_config, the fields create_infra reads and writes.
BaseRepo ==
    [file_hosting_config_name |-> Some("s1"),
     signing_keys |-> Some(KeyKms(None, Avail(Keys12))),
     root_keys |-> Some(KeyKms(None, Avail(Keys3))),
     pub_key_threshold |-> Some(<<"1">>),
     root_key_threshold |-> Some(<<"1">>),
     metadata_base_url |-> None,
     targets_url |-> None,
     root_role_url |-> None,
     root_role_sha512 |-> None]

\* S3Config of pubsys_config.
BaseStorage ==
    [region |-> Some("us-west-2"),
     vpc_endpoint_id |-> Some("vpce-1"),
     s3_prefix |-> <<"t">>,
     stack_arn |-> None,
     bucket_name |-> None]

S3Map(st) == [n \in {"s1"} |-> st]

BaseAws == Some([s3 |-> Some(S3Map(BaseStorage))])

InfraConfig(repos, aws) == [repo |-> repos, aws |-> aws]

\* A URL and a digest that an earlier run left in the configuration.
PresetUrl == <<"https://preset.example", "/", "x">>

\* The content of a root document: the run that initialised it and the
\* tuftool commands applied to it since.
Document(r, cmds) == [run |-> r, cmds |-> cmds]

OldDocument == Document(0, <<>>)

\* Sha512 of a file's content, hex encoded (main.rs 210-212).
Sha512(content) == [alg |-> "sha512", of |-> content]

PresetDigest == Sha512(OldDocument)

\* --- the input configurations the runs are started on
PubKeyChoices ==
    {None, Some(KeyFile), Some(KeySsm), Some(KeyKms(None, None)),
     Some(KeyKms(Some("k9"), None))}

PubKeyIdChoices ==
    {Some(KeyKms(Some("k9"), Avail(Keys12))), Some(KeyKms(Some("k2"), Avail(Keys12))),
     Some(KeyKms(Some("k9"), Avail(Keys0)))}

PubKmsChoices ==
    {Some(KeyKms(None, Avail(Keys0))), Some(KeyKms(None, Avail(Keys1))),
     Some(KeyKms(None, Avail(Keys12)))}

ThresholdChoices ==
    {None, Some(<<"0">>), Some(<<"1">>), Some(<<"2">>), Some(<<"3">>),
     Some(<<"+", "2">>), Some(<<"-", "1">>), Some(<<"x">>), Some(<<>>)}

RootKeyChoices ==
    {None, Some(KeyFile), Some(KeySsm), Some(KeyKms(None, None)),
     Some(KeyKms(None, Avail(Keys0))), Some(KeyKms(None, Avail(Keys34))),
     Some(KeyKms(Some("k3"), Avail(Keys3)))}

RootThresholdChoices == {None, Some(<<"2">>), Some(<<"x">>), Some(<<"0">>)}

PrefixChoices ==
    {<<>>, <<"t", "u", "f">>, <<"/", "t", "u", "f">>, <<"t", "u", "f", "/">>,
     <<"/", "t", "u", "f", "/">>, <<"/", "t", "u", "f", "/", "*">>,
     <<"t", "u", "f", "/", "*">>}

RepoChoices ==
    {[BaseRepo EXCEPT !.signing_keys = pk] : pk \in PubKeyChoices \cup PubKeyIdChoices}
    \cup {[BaseRepo EXCEPT !.signing_keys = pk, !.pub_key_threshold = t] :
            pk \in PubKmsChoices, t \in ThresholdChoices}
    \cup {[BaseRepo EXCEPT !.root_keys = rk] : rk \in RootKeyChoices}
    \cup {[BaseRepo EXCEPT !.root_keys = Some(KeyKms(None, Avail(Keys34))),
                           !.root_key_threshold = t] : t \in RootThresholdChoices}
    \cup {[BaseRepo EXCEPT !.file_hosting_config_name = f] : f \in {None, Some("s9")}}
    \cup {[BaseRepo EXCEPT !.metadata_base_url = IF "m" \in s THEN Some(PresetUrl) ELSE None,
                           !.targets_url = IF "t" \in s THEN Some(PresetUrl) ELSE None,
                           !.root_role_url = IF "r" \in s THEN Some(PresetUrl) ELSE None,
                           !.root_role_sha512 = IF "r" \in s THEN Some(PresetDigest) ELSE None] :
            s \in SUBSET {"m", "t", "r"}}

\* stack_id of the n-th create-stack response.
StackId(n) == <<"arn:aws:cloudformation:stack", n>>

StorageChoices ==
    {[BaseStorage EXCEPT !.region = r] : r \in {None, Some("nowhere")}}
    \cup {[BaseStorage EXCEPT !.vpc_endpoint_id = None]}
    \cup {[BaseStorage EXCEPT !.s3_prefix = p] : p \in PrefixChoices}
    \cup {[BaseStorage EXCEPT !.stack_arn = Some(StackId(0)), !.bucket_name = Some("b0")]}

AwsChoices ==
    {None, Some([s3 |-> None])} \cup {Some([s3 |-> Some(S3Map(st))]) : st \in StorageChoices}

\* The later entries of a configuration with more than one repository.
LaterRepoChoices == {BaseRepo, [BaseRepo EXCEPT !.root_keys = None]}

PolicyChoices ==
    {None, Some(PolicyDoc("2012-10-17", "array", <<>>)),
     Some(PolicyDoc("2012-10-17", "array", <<OldStatement>>)),
     Some(PolicyDoc("2012-10-17", "object", <<OldStatement>>)),
     Some(PolicyDoc("2012-10-17", "absent", <<>>))}

Output(k, v) == [output_key |-> k, output_value |-> v]

\* The Outputs member of a describe-stacks response for a ready stack.
GoodOutputs ==
    Some(<<Output("BucketName", Some("b1")), Output("BucketUrl", Some("https://b1.s3.example"))>>)

OutputChoices ==
    {None, Some(<<>>),
     Some(<<Output("BucketName", Some("b1"))>>),
     Some(<<Output("BucketName", None), Output("BucketUrl", Some("https://b1.s3.example"))>>),
     Some(<<Output("BucketName", Some("b1")), Output("BucketUrl", None)>>),
     Some(<<Output("BucketName", Some("b1")), Output("BucketUrl", Some("https://b1.s3.example"))>>),
     Some(<<Output("BucketName", Some("b1")), Output("BucketUrl", Some("b1.s3.example"))>>)}

\* What a run starts on: the parsed Infra.toml, the bucket's policy and
\* whether a file is at the root-document path; the outputs the stack
\* template declares.
Scenario(c, p, r) == [cfg |-> c, policy |-> p, root |-> r, outputs |-> GoodOutputs]

Scenarios ==
    {Scenario(InfraConfig(Some(<<r>>), BaseAws), None, None) : r \in RepoChoices}
    \cup {Scenario(InfraConfig(Some(<<BaseRepo>>), a), None, None) : a \in AwsChoices}
    \cup {Scenario(InfraConfig(Some(<<BaseRepo>> \o [k \in 1..n |-> r]), BaseAws), None, None) :
            n \in 1..(MaxRepos - 1), r \in LaterRepoChoices}
    \cup {Scenario(InfraConfig(rs, BaseAws), None, None) : rs \in {None, Some(<<>>)}}
    \cup {Scenario(InfraConfig(Some(<<BaseRepo>>), BaseAws), p, r) :
            p \in PolicyChoices, r \in {None, Some(OldDocument)}}
    \cup {[Scenario(InfraConfig(Some(<<BaseRepo>>), BaseAws), None, None) EXCEPT !.outputs = o] :
            o \in OutputChoices}

\* ---------------------------------------------------------------- state
VARIABLES
    cfg,          \* infra_config: the configuration object of the current run
    input,        \* the configuration file the current run was started on
    pc,           \* the statement of create_infra the run is at
    i,            \* index (in iteration order) of the repository entry being processed
    run,          \* number of the current run
    log,          \* operations the current run has issued, oldest first
    err,          \* the error a failed run ended with, and the statement it arose at
    loc,          \* local variables of create_infra and of its callees
    rootDoc,      \* the file at root_role_path: None, or Some(commands applied to it)
    policy,       \* the bucket's policy: None, or Some(document)
    stackStatus,  \* stack_status of the CloudFormation stack
    createReqs,   \* create-stack requests issued so far, over all runs
    objects,      \* objects put into the bucket
    lock,         \* Infra.lock: None, or Some(configuration written)
    lockWrites,   \* writes of Infra.lock by the current run
    stackOutputs, \* the Outputs member the stack reports once it is ready
    prev          \* what the previous run left, when it completed

vars ==
    <<cfg, input, pc, i, run, log, err, loc, rootDoc, policy, stackStatus,
      createReqs, objects, lock, lockWrites, stackOutputs, prev>>

world == <<rootDoc, policy, stackStatus, createReqs, objects, lock, lockWrites, stackOutputs>>

runv == <<run, input, prev>>

NoPrev == [done |-> FALSE, cfg |-> InfraConfig(None, None), policy |-> None, createReqs |-> 0]

NoError == [kind |-> "none", at |-> ""]

\* Locals before they are assigned.
NoLoc ==
    [stack_name |-> "", region |-> "", vpcid |-> "", prefix |-> <<>>,
     stack_arn |-> <<>>, bucket_name |-> "", bucket_url |-> "",
     polls |-> 0, last_status |-> "", outputs |-> None,
     get_resp |-> "", fetched |-> None, new_policy |-> PolicyDoc("", "array", <<>>),
     role |-> "", threshold |-> <<>>, thr_todo |-> <<>>, key_iter |-> <<>>, key_todo |-> <<>>]

Init ==
    /\ \E sc \in Scenarios :
        /\ cfg = sc.cfg
        /\ input = sc.cfg
        /\ policy = sc.policy
        /\ rootDoc = sc.root
        /\ stackOutputs = sc.outputs
    /\ pc = "start"
    /\ i = 0
    /\ run = 1
    /\ log = <<>>
    /\ err = NoError
    /\ loc = NoLoc
    /\ stackStatus = "NONE"
    /\ createReqs = 0
    /\ objects = {}
    /\ lock = None
    /\ lockWrites = 0
    /\ prev = NoPrev

\* ---------------------------------------------------------------- helpers
Repos == Unwrap(cfg.repo)

Repo == Repos[i]

\* One operation as the outside sees it: a cloud request, a tuftool
\* subprocess, a look at the file system.  ok tells whether it succeeded.
Op(kind, role, key, arg, region, ok) ==
    [kind |-> kind, e |-> i, role |-> role, key |-> key, arg |-> arg,
     region |-> region, ok |-> ok]

\* The `?` of a failed call: run() returns the error, main prints it and exits 1.
Fail(kind) ==
    /\ pc' = "failed"
    /\ err' = [kind |-> kind, at |-> pc]

\* An index out of bounds: the thread panics.
Panic ==
    /\ pc' = "panicked"
    /\ err' = [kind |-> "panic", at |-> pc]

Goto(next) ==
    /\ pc' = next
    /\ err' = err

\* ---------------------------------------------------------------- create_infra
\* main.rs 86-93: the repo map must be there; the loop begins.
Start ==
    /\ pc = "start"
    /\ IF IsNone(cfg.repo)
       THEN Fail("MissingConfig") /\ i' = i
       ELSE IF Len(Repos) = 0
            THEN Goto("write_lock") /\ i' = i
            ELSE Goto("resolve") /\ i' = 1
    /\ UNCHANGED <<cfg, log, loc, world, runv>>

\* main.rs 94-134 (Step 0): the first absent field, in the order the code
\* looks them up, or "" when none is absent.
MissingField(c, r) ==
    IF IsNone(r.file_hosting_config_name) THEN "file_hosting_config_name"
    ELSE IF IsNone(c.aws) THEN "aws"
    ELSE IF IsNone(Unwrap(c.aws).s3) THEN "aws.s3"
    ELSE IF Unwrap(r.file_hosting_config_name) \notin DOMAIN Unwrap(Unwrap(c.aws).s3)
        THEN "aws.s3 config"
    ELSE IF IsNone(Unwrap(Unwrap(c.aws).s3)[Unwrap(r.file_hosting_config_name)].region)
        THEN "region"
    ELSE IF IsNone(Unwrap(Unwrap(c.aws).s3)[Unwrap(r.file_hosting_config_name)].vpc_endpoint_id)
        THEN "vpc_endpoint_id"
    ELSE IF IsNone(r.signing_keys) THEN "signing_keys"
    ELSE IF IsNone(r.root_keys) THEN "root_keys"
    ELSE ""

\* s3_info: the storage configuration the entry names.
S3Info(c, r) == Unwrap(Unwrap(c.aws).s3)[Unwrap(r.file_hosting_config_name)]

ResolveConfig ==
    /\ pc = "resolve"
    /\ IF MissingField(cfg, Repo) # ""
       THEN Fail("MissingConfig") /\ loc' = loc
       ELSE /\ Goto("check_signing_keys")
            /\ loc' = [NoLoc EXCEPT
                         !.stack_name = Unwrap(Repo.file_hosting_config_name),
                         !.region = Unwrap(S3Info(cfg, Repo).region),
                         !.vpcid = Unwrap(S3Info(cfg, Repo).vpc_endpoint_id),
                         !.prefix = format_prefix(S3Info(cfg, Repo).s3_prefix)]
    /\ UNCHANGED <<cfg, i, log, world, runv>>

\* keys::check_signing_key_config: nothing to check for file and ssm; a kms
\* configuration must be structurally present.
ValidKeyConfig(kc) == kc.variant = "kms" => IsSome(kc.config)

\* main.rs 135
CheckSigningKeys ==
    /\ pc = "check_signing_keys"
    /\ LET ok == ValidKeyConfig(Unwrap(Repo.signing_keys))
       IN /\ log' = Append(log, Op("check_signing_key_config", <<"publication">>, "", <<>>, "", ok))
          /\ IF ok THEN Goto("check_root_keys") ELSE Fail("MissingConfig")
    /\ UNCHANGED <<cfg, i, loc, world, runv>>

\* main.rs 136
CheckRootKeys ==
    /\ pc = "check_root_keys"
    /\ LET ok == ValidKeyConfig(Unwrap(Repo.root_keys))
       IN /\ log' = Append(log, Op("check_signing_key_config", <<"root">>, "", <<>>, "", ok))
          /\ IF ok THEN Goto("check_root") ELSE Fail("MissingConfig")
    /\ UNCHANGED <<cfg, i, loc, world, runv>>

\* Mutant: the file at root_role_path is looked at and the run goes on.
CheckRoot_Ignore ==
    /\ pc = "check_root"
    /\ log' = Append(log, Op("check_root", <<>>, "", <<>>, "", IsNone(rootDoc)))
    /\ Goto("create_stack")
    /\ UNCHANGED <<cfg, i, loc, world, runv>>

\* Mutant: the file is looked for before the first entry only.
CheckRoot_FirstEntryOnly ==
    /\ pc = "check_root"
    /\ log' = Append(log, Op("check_root", <<>>, "", <<>>, "", IsNone(rootDoc) \/ i > 1))
    /\ IF IsSome(rootDoc) /\ i = 1 THEN Fail("FileExists") ELSE Goto("create_stack")
    /\ UNCHANGED <<cfg, i, loc, world, runv>>

\* main.rs 137, root::check_root: a file at root_role_path is an error.
CheckRoot ==
    /\ pc = "check_root"
    /\ log' = Append(log, Op("check_root", <<>>, "", <<>>, "", IsNone(rootDoc)))
    /\ IF IsSome(rootDoc) THEN Fail("FileExists") ELSE Goto("create_stack")
    /\ UNCHANGED <<cfg, i, loc, world, runv>>

\* ---------------------------------------------------------------- s3.rs, shared.rs
\* s3::create_s3_bucket up to the stack id (s3.rs 39-64): the region is
\* parsed, the template is read, the request is sent.
CreateStack ==
    /\ pc = "create_stack"
    /\ \/ /\ loc.region \notin ValidRegions
          /\ Fail("ParseRegion")
          /\ UNCHANGED <<log, loc, stackStatus, createReqs>>
       \/ /\ loc.region \in ValidRegions
          /\ Fail("FileRead")
          /\ UNCHANGED <<log, loc, stackStatus, createReqs>>
       \/ /\ loc.region \in ValidRegions
          /\ createReqs' = createReqs + 1
          /\ \E resp \in {"rejected", "no_stack_id", "accepted"} :
                /\ log' = Append(log, Op("create_stack", <<>>, "", <<resp>>, loc.region,
                                         resp # "rejected"))
                /\ stackStatus' = IF resp = "rejected" THEN stackStatus
                                  ELSE "CREATE_IN_PROGRESS"
                /\ IF resp = "rejected" THEN Fail("CreateStack") /\ loc' = loc
                   ELSE IF resp = "no_stack_id" THEN Fail("ParseResponse") /\ loc' = loc
                   ELSE /\ Goto("describe")
                        /\ loc' = [loc EXCEPT !.stack_arn = StackId(createReqs + 1),
                                              !.polls = 0]
    /\ UNCHANGED <<cfg, i, rootDoc, policy, objects, lock, lockWrites, stackOutputs, runv>>

\* The cloud, while the program polls: the stack goes on towards its
\* terminal status.
StackProgress ==
    /\ pc = "describe"
    /\ \/ /\ stackStatus = "CREATE_IN_PROGRESS"
          /\ stackStatus' \in {"CREATE_COMPLETE", "ROLLBACK_IN_PROGRESS"}
       \/ /\ stackStatus = "ROLLBACK_IN_PROGRESS"
          /\ stackStatus' = "ROLLBACK_COMPLETE"
    /\ UNCHANGED <<cfg, pc, i, log, err, loc, rootDoc, policy, createReqs, objects,
                   lock, lockWrites, stackOutputs, runv>>

\* main.rs 144-145: the outputs written back into the storage configuration.
SetStorageOutputs(c, name, arn, bucket) ==
    [c EXCEPT !.aws = Some([s3 |-> Some([Unwrap(Unwrap(c.aws).s3) EXCEPT
                                           ![name].stack_arn = Some(arn),
                                           ![name].bucket_name = Some(bucket)])])]

\* The Outputs member of a describe-stacks response: a stack that is not
\* ready has none yet (shared.rs 30).
ResponseOutputs(status) == IF status = "CREATE_COMPLETE" THEN stackOutputs ELSE None

\* Mutant: the loop also ends on the terminal status of a failed creation.
ReadyStatus_AnyTerminal(status) == status \in {"CREATE_COMPLETE", "ROLLBACK_COMPLETE"}

\* The statuses on which the loop of get_stack_outputs ends (shared.rs 52).
ReadyStatus(status) == status = "CREATE_COMPLETE"

\* One describe-stacks request of shared::get_stack_outputs (shared.rs 36-72),
\* and, when it ends the loop, the rest of get_stack_outputs (74-79), of
\* create_s3_bucket (s3.rs 68-85) and main.rs 144-145.
DescribeStacks ==
    /\ pc = "describe"
    /\ \E resp \in {"rejected", "no_stacks", "empty_stacks", "ok"} :
        /\ log' = Append(log, Op("describe_stacks", <<>>, "",
                                 IF resp = "ok" THEN <<stackStatus>> ELSE <<resp>>,
                                 loc.region, resp = "ok"))
        /\ IF resp = "rejected" THEN Fail("DescribeStack") /\ UNCHANGED <<loc, cfg>>
           ELSE IF resp = "no_stacks" THEN Fail("ParseResponse") /\ UNCHANGED <<loc, cfg>>
           ELSE IF resp = "empty_stacks" THEN Panic /\ UNCHANGED <<loc, cfg>>
           ELSE IF ~ReadyStatus(stackStatus)
           THEN /\ loc.polls < MaxPolls
                /\ Goto("describe")
                /\ loc' = [loc EXCEPT !.polls = @ + 1, !.last_status = stackStatus,
                                      !.outputs = ResponseOutputs(stackStatus)]
                /\ cfg' = cfg
           ELSE LET outs == ResponseOutputs(stackStatus) IN
                /\ loc' = [loc EXCEPT
                             !.polls = 0,
                             !.last_status = stackStatus,
                             !.outputs = outs,
                             !.bucket_name =
                                 IF IsSome(outs) /\ Len(Unwrap(outs)) >= 1
                                    /\ IsSome(Unwrap(outs)[1].output_value)
                                 THEN Unwrap(Unwrap(outs)[1].output_value) ELSE @,
                             !.bucket_url =
                                 IF IsSome(outs) /\ Len(Unwrap(outs)) >= 2
                                    /\ IsSome(Unwrap(outs)[2].output_value)
                                 THEN Unwrap(Unwrap(outs)[2].output_value) ELSE @]
                /\ IF IsNone(outs) THEN Fail("ParseResponse") /\ cfg' = cfg
                   ELSE IF Len(Unwrap(outs)) < 1 THEN Panic /\ cfg' = cfg
                   ELSE IF IsNone(Unwrap(outs)[1].output_value)
                        THEN Fail("ParseResponse") /\ cfg' = cfg
                   ELSE IF Len(Unwrap(outs)) < 2 THEN Panic /\ cfg' = cfg
                   ELSE IF IsNone(Unwrap(outs)[2].output_value)
                        THEN Fail("ParseResponse") /\ cfg' = cfg
                   ELSE /\ Goto("get_policy")
                        /\ cfg' = SetStorageOutputs(cfg, loc.stack_name, loc.stack_arn,
                                                    Unwrap(Unwrap(outs)[1].output_value))
    /\ UNCHANGED <<i, world, runv>>

\* The statement add_bucket_policy builds (s3.rs 126-142).
NewStatement(bucket_name, prefix, vpcid) ==
    [Effect |-> "Allow", Principal |-> "*", Action |-> "s3:GetObject",
     Resource |-> <<"arn:aws:s3:::", bucket_name>> \o prefix \o <<"/", "*">>,
     Condition |-> [op |-> "StringEquals", key |-> "aws:sourceVpce", value |-> vpcid]]

\* The document add_bucket_policy starts from when get-bucket-policy
\* returned an error (s3.rs 116-122).
EmptyPolicy == PolicyDoc("2008-10-17", "array", <<>>)

\* Mutant: the new statement replaces the array instead of being pushed.
AppendStatement_Replace(doc, st) == [doc EXCEPT !.Statement = <<st>>]

\* s3.rs 144-150: the new statement is pushed onto the document's array.
AppendStatement(doc, st) == [doc EXCEPT !.Statement = Append(@, st)]

\* The document add_bucket_policy goes on with after the get-bucket-policy
\* response (s3.rs 101-123): the policy of an Ok response, the empty
\* document on any Err.
CurrentPolicy(resp) == IF resp = "ok" THEN Unwrap(policy) ELSE EmptyPolicy

\* s3::add_bucket_policy up to the document to write (s3.rs 98-150).
GetBucketPolicy ==
    /\ pc = "get_policy"
    /\ \E resp \in {"ok", "no_policy_member", "no_such_policy", "rejected"} :
        /\ resp \in {"ok", "no_policy_member"} => IsSome(policy)
        /\ resp = "no_such_policy" => IsNone(policy)
        /\ log' = Append(log, Op("get_bucket_policy", <<>>, "", <<resp>>, loc.region,
                                 resp \in {"ok", "no_policy_member"}))
        /\ IF resp = "no_policy_member"
           THEN Fail("ParseResponse") /\ loc' = [loc EXCEPT !.get_resp = resp]
           ELSE IF CurrentPolicy(resp).shape # "array"
           THEN Fail("GetPolicyStatement") /\ loc' = [loc EXCEPT !.get_resp = resp]
           ELSE /\ Goto("put_policy")
                /\ loc' = [loc EXCEPT
                             !.get_resp = resp,
                             !.fetched = IF resp = "ok" THEN policy ELSE None,
                             !.new_policy =
                                 AppendStatement(CurrentPolicy(resp),
                                     NewStatement(loc.bucket_name, loc.prefix, loc.vpcid))]
    /\ UNCHANGED <<cfg, i, world, runv>>

\* s3.rs 152-162: the whole document is written back.
PutBucketPolicy ==
    /\ pc = "put_policy"
    /\ \E ok \in BOOLEAN :
        /\ log' = Append(log, Op("put_bucket_policy", <<>>, "", <<>>, loc.region, ok))
        /\ IF ok THEN Goto("create_keys_pub") /\ policy' = Some(loc.new_policy)
           ELSE Fail("PutPolicy") /\ policy' = policy
    /\ UNCHANGED <<cfg, i, loc, rootDoc, stackStatus, createReqs, objects, lock,
                   lockWrites, stackOutputs, runv>>

\* ---------------------------------------------------------------- keys.rs
\* keys::create_keys: key material is created for a kms configuration;
\* nothing is done for file and ssm.
CreateKeysFor(kc, role, next) ==
    IF kc.variant # "kms"
    THEN Goto(next) /\ log' = log
    ELSE \E ok \in BOOLEAN :
            /\ log' = Append(log, Op("create_keys", <<role>>, "", <<>>, "", ok))
            /\ IF ok THEN Goto(next) ELSE Fail("KeyCreation")

\* main.rs 152
CreateKeysPub ==
    /\ pc = "create_keys_pub"
    /\ CreateKeysFor(Unwrap(Repo.signing_keys), "publication", "create_keys_root")
    /\ UNCHANGED <<cfg, i, loc, world, runv>>

\* main.rs 153
CreateKeysRoot ==
    /\ pc = "create_keys_root"
    /\ CreateKeysFor(Unwrap(Repo.root_keys), "root", "root_init")
    /\ UNCHANGED <<cfg, i, loc, world, runv>>

\* ---------------------------------------------------------------- root.rs
\* How a tuftool subprocess can end (root.rs 22-31).
TuftoolResults == {"ok", "spawn_failed", "nonzero"}

TuftoolError(res) == IF res = "spawn_failed" THEN "TuftoolSpawn" ELSE "TuftoolResult"

\* The document after tuftool has applied a command to it.
ApplyCommand(doc, op) ==
    IF op.kind = "init" THEN Some(Document(run, <<op>>))
    ELSE Some([Unwrap(doc) EXCEPT !.cmds = Append(@, op)])

\* Mutant: the exit status of the subprocess is not looked at.
Tuftool_IgnoreExit(op, next) ==
    \E res \in TuftoolResults :
        /\ log' = Append(log, [op EXCEPT !.ok = (res = "ok")])
        /\ IF res # "spawn_failed"
           THEN Goto(next) /\ rootDoc' = ApplyCommand(rootDoc, op)
           ELSE Fail(TuftoolError(res)) /\ rootDoc' = rootDoc

\* The tuftool! macro (root.rs 12-33): one subprocess, its region in the
\* environment; a failure to spawn or a non-zero exit is an error.
Tuftool(op, next) ==
    \E res \in TuftoolResults :
        /\ log' = Append(log, [op EXCEPT !.ok = (res = "ok")])
        /\ IF res = "ok"
           THEN Goto(next) /\ rootDoc' = ApplyCommand(rootDoc, op)
           ELSE Fail(TuftoolError(res)) /\ rootDoc' = rootDoc

\* root::create_root (root.rs 47-60): the directory, then `root init`.
RootInit ==
    /\ pc = "root_init"
    /\ \/ Fail("Mkdir") /\ UNCHANGED <<log, rootDoc>>
       \/ Tuftool(Op("init", <<>>, "", <<>>, DefaultRegion, TRUE), "root_expire")
    /\ UNCHANGED <<cfg, i, loc, policy, stackStatus, createReqs, objects, lock,
                   lockWrites, stackOutputs, runv>>

\* root.rs 61-66: `root expire`.
RootExpire ==
    /\ pc = "root_expire"
    /\ Tuftool(Op("expire", <<>>, "", <<"in 52 weeks">>, DefaultRegion, TRUE), "add_keys_pub")
    /\ UNCHANGED <<cfg, i, loc, policy, stackStatus, createReqs, objects, lock,
                   lockWrites, stackOutputs, runv>>

AvailableKeys(kc) == Unwrap(kc.config).available_keys

\* HashMap::iter: the keys in an arbitrary order, the same order each time
\* the map, which nothing modifies, is iterated during a call.
IterationOrders(available_keys) ==
    {s \in [1..Cardinality(DOMAIN available_keys) -> DOMAIN available_keys] :
        \A a, b \in DOMAIN s : a # b => s[a] # s[b]}

\* Mutant: the comparison of root.rs 108 as <= instead of <.
ThresholdError_OffByOne(available_keys, threshold) ==
    IF IsNone(ParseUsize(threshold)) THEN "ParseInt"
    ELSE IF Cardinality(DOMAIN available_keys) <= Unwrap(ParseUsize(threshold))
         THEN "InvalidThreshold"
    ELSE ""

\* root.rs 108-118: the threshold is parsed and compared with the number of
\* available keys.  "" when add_keys_kms goes on.
ThresholdError(available_keys, threshold) ==
    IF IsNone(ParseUsize(threshold)) THEN "ParseInt"
    ELSE IF Cardinality(DOMAIN available_keys) < Unwrap(ParseUsize(threshold))
         THEN "InvalidThreshold"
    ELSE ""

\* Mutant: the thresholds of the Publication roles are set in another order.
ThresholdRoles_Reordered(role) ==
    IF role = "root" THEN <<"root">> ELSE <<"targets", "snapshot", "timestamp">>

\* Mutant: every subprocess of a loop runs with the region of one key.
KeyRegion_OfOneKey(available_keys, keyid) ==
    available_keys[CHOOSE k \in DOMAIN available_keys : TRUE]

\* The region of a (keyid, region) pair that available_keys.iter() yields
\* (root.rs 127, 155, 188).
KeyRegion(available_keys, keyid) == available_keys[keyid]

\* The roles whose threshold add_keys_kms sets, in the order of the code
\* (root.rs 121-126, 137-154).
ThresholdRoles(role) ==
    IF role = "root" THEN <<"root">> ELSE <<"snapshot", "targets", "timestamp">>

\* The roles of one add-key command (root.rs 130, 158).
AddKeyRoles(role) ==
    IF role = "root" THEN <<"root">> ELSE <<"snapshot", "targets", "timestamp">>

\* Where create_infra goes on after add_keys for a role.
AfterAddKeys(role) == IF role = "publication" THEN "add_keys_root" ELSE "sign_root"

\* One call of root::add_keys up to its first subprocess: the threshold
\* argument (main.rs 162-167, 173-178), the variant (root.rs 77-92), the
\* threshold check of add_keys_kms (root.rs 108-118).
AddKeysCall(role, kc, threshold) ==
    IF IsNone(threshold) THEN Fail("MissingConfig") /\ loc' = loc
    ELSE IF kc.variant # "kms" THEN Goto(AfterAddKeys(role)) /\ loc' = loc
    ELSE IF IsNone(kc.config) THEN Fail("MissingConfig") /\ loc' = loc
    ELSE IF ThresholdError(AvailableKeys(kc), Unwrap(threshold)) # ""
         THEN Fail(ThresholdError(AvailableKeys(kc), Unwrap(threshold))) /\ loc' = loc
    ELSE /\ Goto("set_threshold")
         /\ \E order \in IterationOrders(AvailableKeys(kc)) :
                loc' = [loc EXCEPT !.role = role,
                                   !.threshold = Unwrap(threshold),
                                   !.thr_todo = ThresholdRoles(role),
                                   !.key_iter = order,
                                   !.key_todo = order]

\* main.rs 159-169
AddKeysPublication ==
    /\ pc = "add_keys_pub"
    /\ AddKeysCall("publication", Unwrap(Repo.signing_keys), Repo.pub_key_threshold)
    /\ UNCHANGED <<cfg, i, log, world, runv>>

\* main.rs 170-180
AddKeysRoot ==
    /\ pc = "add_keys_root"
    /\ AddKeysCall("root", Unwrap(Repo.root_keys), Repo.root_key_threshold)
    /\ UNCHANGED <<cfg, i, log, world, runv>>

KeyConfig(role) ==
    IF role = "publication" THEN Unwrap(Repo.signing_keys) ELSE Unwrap(Repo.root_keys)

\* Mutant: the root document is uploaded without being signed.
AfterAddKeyLoop_SkipSign(role) == IF role = "publication" THEN "set_key_id" ELSE "upload"

\* Where add_keys_kms goes on when its add-key loop is over.
AfterAddKeyLoop(role) == IF role = "publication" THEN "set_key_id" ELSE "sign_root"

\* root.rs 121-126, 137-154: the next `root set-threshold`.
SetThreshold ==
    /\ pc = "set_threshold"
    /\ Tuftool(Op("set-threshold", <<Head(loc.thr_todo)>>, "", loc.threshold,
                  DefaultRegion, TRUE),
               IF Len(loc.thr_todo) > 1 THEN "set_threshold"
               ELSE IF loc.key_todo = <<>> THEN AfterAddKeyLoop(loc.role)
               ELSE "add_key")
    /\ loc' = [loc EXCEPT !.thr_todo = IF pc' = "failed" THEN @ ELSE Tail(@)]
    /\ UNCHANGED <<cfg, i, policy, stackStatus, createReqs, objects, lock,
                   lockWrites, stackOutputs, runv>>

\* root.rs 127-134, 155-162: `root add-key` for the next key the map's
\* iterator yields, with that key's region.
AddKey ==
    /\ pc = "add_key"
    /\ LET k == Head(loc.key_todo)
       IN /\ Tuftool(Op("add-key", AddKeyRoles(loc.role), k, <<>>,
                        KeyRegion(AvailableKeys(KeyConfig(loc.role)), k), TRUE),
                     IF Len(loc.key_todo) = 1 THEN AfterAddKeyLoop(loc.role) ELSE "add_key")
          /\ loc' = [loc EXCEPT !.key_todo = IF pc' = "failed" THEN @ ELSE Tail(@)]
    /\ UNCHANGED <<cfg, i, policy, stackStatus, createReqs, objects, lock,
                   lockWrites, stackOutputs, runv>>

\* Mutant: the id is written into the key configurations of both roles.
WithKeyId_BothRoles(c, idx, kid) ==
    [c EXCEPT !.repo = Some([Unwrap(c.repo) EXCEPT
        ![idx].signing_keys = Some([Unwrap(@) EXCEPT !.key_id = kid]),
        ![idx].root_keys = Some([Unwrap(@) EXCEPT !.key_id = kid])])]

WithKeyId(c, idx, kid) ==
    [c EXCEPT !.repo = Some([Unwrap(c.repo) EXCEPT
        ![idx].signing_keys = Some([Unwrap(@) EXCEPT !.key_id = kid])])]

\* Mutant: key_id is assigned whether or not it holds a value.
NewKeyId_Reassign(key_id, key_iter) ==
    IF Len(key_iter) = 0 THEN None ELSE Some(Head(key_iter))

\* Mutant: an empty map yields the default string instead of an error.
NewKeyId_OrDefault(key_id, key_iter) ==
    IF IsSome(key_id) THEN key_id
    ELSE IF Len(key_iter) = 0 THEN Some("")
    ELSE Some(Head(key_iter))

\* root.rs 167-176: the key_id after the Publication branch: an id that is
\* there stays; otherwise the first key the iterator yields.  None when
\* there is no id and the map has no key (KeyCreation).
NewKeyId(key_id, key_iter) ==
    IF IsSome(key_id) THEN key_id
    ELSE IF Len(key_iter) = 0 THEN None
    ELSE Some(Head(key_iter))

\* root.rs 164-176
SetKeyId ==
    /\ pc = "set_key_id"
    /\ LET kid == NewKeyId(Unwrap(Repo.signing_keys).key_id, loc.key_iter)
       IN IF IsNone(kid)
          THEN Fail("KeyCreation") /\ cfg' = cfg
          ELSE Goto("add_keys_root") /\ cfg' = WithKeyId(cfg, i, kid)
    /\ UNCHANGED <<i, log, loc, world, runv>>

\* root::sign_root up to its first subprocess (root.rs 184-195).
SignRoot ==
    /\ pc = "sign_root"
    /\ LET kc == Unwrap(Repo.root_keys)
       IN IF kc.variant # "kms" THEN Goto("upload") /\ loc' = loc
          ELSE IF IsNone(kc.config) THEN Fail("MissingConfig") /\ loc' = loc
          ELSE /\ Goto(IF DOMAIN AvailableKeys(kc) = {} THEN "upload" ELSE "sign")
               /\ loc' = [loc EXCEPT !.role = "root", !.key_todo = loc.key_iter]
    /\ UNCHANGED <<cfg, i, log, world, runv>>

\* Mutant: the document is signed with the first key only.
Sign_FirstOnly ==
    /\ pc = "sign"
    /\ LET k == Head(loc.key_todo)
       IN /\ Tuftool(Op("sign", <<>>, k, <<>>, AvailableKeys(Unwrap(Repo.root_keys))[k], TRUE),
                     "upload")
          /\ loc' = [loc EXCEPT !.key_todo = IF pc' = "failed" THEN @ ELSE Tail(@)]
    /\ UNCHANGED <<cfg, i, policy, stackStatus, createReqs, objects, lock,
                   lockWrites, stackOutputs, runv>>

\* root.rs 196: `root sign` with the next key of the root configuration.
Sign ==
    /\ pc = "sign"
    /\ LET k == Head(loc.key_todo)
       IN /\ Tuftool(Op("sign", <<>>, k, <<>>,
                        KeyRegion(AvailableKeys(Unwrap(Repo.root_keys)), k), TRUE),
                     IF Len(loc.key_todo) = 1 THEN "upload" ELSE "sign")
          /\ loc' = [loc EXCEPT !.key_todo = IF pc' = "failed" THEN @ ELSE Tail(@)]
    /\ UNCHANGED <<cfg, i, policy, stackStatus, createReqs, objects, lock,
                   lockWrites, stackOutputs, runv>>

\* ---------------------------------------------------------------- upload, outputs
\* Mutant: the object is put into the bucket without the prefix.
UploadBucket_NoPrefix(bucket_name, prefix) == <<bucket_name>>

\* The bucket member of the put-object request (s3.rs 188).
UploadBucket(bucket_name, prefix) == <<bucket_name>> \o prefix

\* s3::upload_file (s3.rs 171-197): the file is read, then put.
UploadFile ==
    /\ pc = "upload"
    /\ \/ Fail("FileOpen") /\ UNCHANGED <<log, objects>>
       \/ /\ IsSome(rootDoc)
          /\ \E ok \in BOOLEAN :
                /\ log' = Append(log, Op("put_object", <<>>, "root.json",
                                         UploadBucket(loc.bucket_name, loc.prefix),
                                         loc.region, ok))
                /\ IF ok
                   THEN /\ Goto("set_outputs")
                        /\ objects' =
                             {o \in objects :
                                 o.bucket # UploadBucket(loc.bucket_name, loc.prefix)}
                             \cup {[bucket |-> UploadBucket(loc.bucket_name, loc.prefix),
                                    key |-> "root.json", body |-> Unwrap(rootDoc)]}
                   ELSE Fail("PutObject") /\ objects' = objects
    /\ UNCHANGED <<cfg, i, loc, rootDoc, policy, stackStatus, createReqs, lock,
                   lockWrites, stackOutputs, runv>>

\* Url::parse: a string without a scheme is no absolute URL.
ParseUrl(s) ==
    IF Len(s) > 0 /\ s[1] \in {"https://b1.s3.example", "https://preset.example"}
    THEN Some(s) ELSE None

MetadataUrl(bucket_url, prefix) == <<bucket_url>> \o prefix \o <<"/metadata/">>

TargetsUrl(bucket_url, prefix) == <<bucket_url>> \o prefix \o <<"/targets/">>

RootRoleUrl(bucket_url, prefix) == <<bucket_url>> \o prefix \o <<"/root.json">>

\* Mutant: the field is assigned whether or not it is set.
FillIfNone_Overwrite(old, new) == new

\* main.rs 189-214 on one field: assigned when it is unset.
FillIfNone(old, new) == IF IsNone(old) THEN new ELSE old

\* main.rs 189-205: the three URL fields after Step 6.
WithUrls(r, bucket_url, prefix) ==
    [r EXCEPT
        !.metadata_base_url = FillIfNone(@, ParseUrl(MetadataUrl(bucket_url, prefix))),
        !.targets_url = FillIfNone(@, ParseUrl(TargetsUrl(bucket_url, prefix))),
        !.root_role_url = FillIfNone(@, ParseUrl(RootRoleUrl(bucket_url, prefix)))]

WithRepo(c, idx, r) == [c EXCEPT !.repo = Some([Unwrap(c.repo) EXCEPT ![idx] = r])]

\* Step 6 (main.rs 188-214) and the end of the loop body.
SetOutputs ==
    /\ pc = "set_outputs"
    /\ LET unset == IsNone(Repo.metadata_base_url) \/ IsNone(Repo.targets_url)
                    \/ IsNone(Repo.root_role_url)
           filled == WithUrls(Repo, loc.bucket_url, loc.prefix)
           more == i < Len(Repos)
       IN IF unset /\ IsNone(ParseUrl(<<loc.bucket_url>>))
          THEN Fail("ParseUrl") /\ cfg' = cfg /\ i' = i
          ELSE IF IsNone(Repo.root_role_url)
          THEN \/ /\ IsSome(rootDoc)
                  /\ cfg' = WithRepo(cfg, i,
                               [filled EXCEPT !.root_role_sha512 = Some(Sha512(Unwrap(rootDoc)))])
                  /\ Goto(IF more THEN "resolve" ELSE "write_lock")
                  /\ i' = IF more THEN i + 1 ELSE i
               \/ /\ cfg' = WithRepo(cfg, i, filled)
                  /\ Fail("FileRead")
                  /\ i' = i
          ELSE /\ cfg' = WithRepo(cfg, i, filled)
               /\ Goto(IF more THEN "resolve" ELSE "write_lock")
               /\ i' = IF more THEN i + 1 ELSE i
    /\ UNCHANGED <<log, loc, world, runv>>

\* Mutant: the file is written although the write is reported as failed.
WriteLock_Partial ==
    /\ pc = "write_lock"
    /\ \E res \in {"ok", "InvalidYaml", "FileWrite"} :
        /\ log' = IF res = "InvalidYaml" THEN log
                   ELSE Append(log, [Op("write_lock", <<>>, "", <<>>, "", res = "ok")
                                       EXCEPT !.e = Len(Repos) + 1])
        /\ IF res = "ok"
           THEN Goto("done") /\ lock' = Some(cfg) /\ lockWrites' = lockWrites + 1
           ELSE IF res = "FileWrite"
           THEN Fail(res) /\ lock' = Some(cfg) /\ lockWrites' = lockWrites + 1
           ELSE Fail(res) /\ UNCHANGED <<lock, lockWrites>>
    /\ UNCHANGED <<cfg, i, loc, rootDoc, policy, stackStatus, createReqs, objects,
                   stackOutputs, runv>>

\* Step 7 (main.rs 217-230): Infra.lock beside the configuration file.
WriteLock ==
    /\ pc = "write_lock"
    /\ \E res \in {"ok", "InvalidYaml", "FileWrite"} :
        /\ log' = IF res = "InvalidYaml" THEN log
                   ELSE Append(log, [Op("write_lock", <<>>, "", <<>>, "", res = "ok")
                                       EXCEPT !.e = Len(Repos) + 1])
        /\ IF res = "ok"
           THEN Goto("done") /\ lock' = Some(cfg) /\ lockWrites' = lockWrites + 1
           ELSE Fail(res) /\ UNCHANGED <<lock, lockWrites>>
    /\ UNCHANGED <<cfg, i, loc, rootDoc, policy, stackStatus, createReqs, objects,
                   stackOutputs, runv>>

\* ---------------------------------------------------------------- between runs
Ended == pc \in {"done", "failed", "panicked"}

\* create_infra is run again: on the configuration the last run wrote when
\* it completed, on the same configuration file when it did not.  Before
\* that the user may have removed the root document, as check_root's
\* warning asks.
Rerun ==
    /\ Ended
    /\ run < MaxRuns
    /\ run' = run + 1
    /\ cfg' = IF pc = "done" THEN Unwrap(lock) ELSE input
    /\ input' = cfg'
    /\ prev' = IF pc = "done"
               THEN [done |-> TRUE, cfg |-> cfg, policy |-> policy, createReqs |-> createReqs]
               ELSE NoPrev
    /\ rootDoc' \in {rootDoc, None}
    /\ pc' = "start"
    /\ i' = 0
    /\ log' = <<>>
    /\ err' = NoError
    /\ loc' = NoLoc
    /\ lockWrites' = 0
    /\ UNCHANGED <<policy, stackStatus, createReqs, objects, lock, stackOutputs>>

Next ==
    \/ Start
    \/ ResolveConfig
    \/ CheckSigningKeys
    \/ CheckRootKeys
    \/ CheckRoot
    \/ CreateStack
    \/ StackProgress
    \/ DescribeStacks
    \/ GetBucketPolicy
    \/ PutBucketPolicy
    \/ CreateKeysPub
    \/ CreateKeysRoot
    \/ RootInit
    \/ RootExpire
    \/ AddKeysPublication
    \/ AddKeysRoot
    \/ SetThreshold
    \/ AddKey
    \/ SetKeyId
    \/ SignRoot
    \/ Sign
    \/ UploadFile
    \/ SetOutputs
    \/ WriteLock
    \/ Rerun

Spec == Init /\ [][Next]_vars

\* ================================================================ properties
LogIdx == 1..Len(log)

\* The position of an operation in the order of the statements of
\* create_infra.
StepRank(op) ==
    CASE op.kind = "check_signing_key_config" -> IF op.role = <<"publication">> THEN 1 ELSE 2
      [] op.kind = "check_root" -> 3
      [] op.kind = "create_stack" -> 4
      [] op.kind = "describe_stacks" -> 5
      [] op.kind = "get_bucket_policy" -> 6
      [] op.kind = "put_bucket_policy" -> 7
      [] op.kind = "create_keys" -> IF op.role = <<"publication">> THEN 8 ELSE 9
      [] op.kind = "init" -> 10
      [] op.kind = "expire" -> 11
      [] op.kind \in {"set-threshold", "add-key"} -> IF op.role = <<"root">> THEN 13 ELSE 12
      [] op.kind = "sign" -> 14
      [] op.kind = "put_object" -> 15
      [] OTHER -> 16

\* A successful operation of the given kind for entry e among the first n
\* operations of the log.
DoneBefore(n, e, kind) ==
    \E a \in 1..n : log[a].e = e /\ log[a].kind = kind /\ log[a].ok

\* The kinds of operation every entry issues, and that must have succeeded
\* before an operation of rank r of the same entry is issued.
RequiredBefore(r) ==
    {k \in {"check_signing_key_config", "check_root", "create_stack", "describe_stacks",
            "put_bucket_policy", "init", "expire", "put_object"} :
        StepRank([kind |-> k, role |-> <<"root">>]) < r}

\* The keys of a key configuration that tuftool is run for.
KmsKeys(kc) ==
    IF IsSome(kc) /\ Unwrap(kc).variant = "kms" /\ IsSome(Unwrap(kc).config)
    THEN DOMAIN AvailableKeys(Unwrap(kc)) ELSE {}

UrlsSet(r) ==
    IsSome(r.metadata_base_url) /\ IsSome(r.targets_url) /\ IsSome(r.root_role_url)

OutputFields(r) ==
    <<r.metadata_base_url, r.targets_url, r.root_role_url, r.root_role_sha512>>

\* C1: within a run the operations are issued in the order of the steps of
\* create_infra, entry after entry; an operation is issued only when the
\* operations of the steps before it have succeeded (a get-bucket-policy
\* that returned an error is part of the policy step, which goes on); the
\* document is uploaded only when every root key has signed it; the output
\* fields of an entry are assigned only after its upload, and an operation
\* of the next entry is issued only after that.
C1_SequentialOrder ==
    /\ \A a, b \in LogIdx :
          a < b => \/ log[a].e < log[b].e
                   \/ log[a].e = log[b].e /\ StepRank(log[a]) <= StepRank(log[b])
    /\ \A a \in LogIdx : a < Len(log) => log[a].ok \/ log[a].kind = "get_bucket_policy"
    /\ \A b \in LogIdx :
          /\ log[b].kind # "write_lock" =>
                \A k \in RequiredBefore(StepRank(log[b])) : DoneBefore(b - 1, log[b].e, k)
          /\ log[b].kind = "put_object" =>
                /\ \A k \in KmsKeys(Unwrap(cfg.repo)[log[b].e].root_keys) :
                      \E a \in 1..(b - 1) : /\ log[a].kind = "sign" /\ log[a].key = k
                                            /\ log[a].e = log[b].e /\ log[a].ok
                /\ \A k \in KmsKeys(Unwrap(cfg.repo)[log[b].e].signing_keys) :
                      \E a \in 1..(b - 1) : /\ log[a].kind = "add-key" /\ log[a].key = k
                                            /\ log[a].e = log[b].e /\ log[a].ok
          /\ log[b].e > 1 =>
                /\ DoneBefore(b - 1, log[b].e - 1, "put_object")
                /\ UrlsSet(Unwrap(cfg.repo)[log[b].e - 1])
    /\ IsSome(cfg.repo) =>
          \A e \in 1..Len(Repos) :
              OutputFields(Repos[e]) # OutputFields(Unwrap(input.repo)[e])
                  => DoneBefore(Len(log), e, "put_object")

\* C1 witness: a run that has gone through every step of its first entry
\* and has begun the second.
C1_Witness ==
    /\ \E a \in LogIdx : log[a].e = 2
    /\ \E a \in LogIdx : log[a].e = 1 /\ log[a].kind = "sign"
    /\ \E a \in LogIdx : log[a].e = 1 /\ log[a].kind = "create_keys"

EntryCompleted(e) == DoneBefore(Len(log), e, "put_object") /\ UrlsSet(Repos[e])

\* C2: a run writes Infra.lock at most once, and only when it has completed
\* every entry without an error; a run that failed has written nothing, and
\* the file is then what it was when the run began.
C2_LockOnlyAfterAll ==
    /\ lockWrites <= 1
    /\ lockWrites = 1 =>
          /\ pc = "done"
          /\ err = NoError
          /\ lock = Some(cfg)
          /\ \A e \in 1..Len(Repos) : EntryCompleted(e)
    /\ pc \in {"failed", "panicked"} => lockWrites = 0
    /\ lockWrites = 0 => lock \in {None, Some(input)}
    /\ lockWrites = 0 /\ run = 1 => lock = None

\* C2 witness: a completed run over one entry, the lock file written.
C2_Witness == lockWrites = 1 /\ run = 1 /\ Len(Repos) = 1 /\ IsSome(lock)

\* C3 (as claimed): a run that ends with a missing-configuration error has
\* issued no cloud request and no signer command for the entry it was at.
C3_MissingFieldFailsFirst ==
    (pc = "failed" /\ err.kind = "MissingConfig") =>
        \A a \in LogIdx :
            log[a].e = i => log[a].kind \in {"check_signing_key_config", "check_root"}

\* A string that denotes a non-negative integer.
IsNonNegInt(s) ==
    \/ Len(s) >= 1 /\ \A k \in 1..Len(s) : s[k] \in {"0", "1", "2", "3", "4", "5", "6", "7", "8", "9"}
    \/ /\ Len(s) >= 2 /\ s[1] = "+"
       /\ \A k \in 2..Len(s) : s[k] \in {"0", "1", "2", "3", "4", "5", "6", "7", "8", "9"}

RoleAt(at) == IF at = "add_keys_pub" THEN "publication" ELSE "root"

ThresholdOf(r, role) ==
    IF role = "publication" THEN r.pub_key_threshold ELSE r.root_key_threshold

KeysOf(r, role) == IF role = "publication" THEN r.signing_keys ELSE r.root_keys

\* C4: add_keys on a kms configuration fails with InvalidThreshold exactly
\* when the number of available keys is below the parsed threshold, and with
\* ParseInt exactly when the threshold is no non-negative integer; when it
\* fails so, no set-threshold and no add-key command of that role has been
\* issued and the key_id of the configuration is the one the run began with.
C4_ThresholdCheck ==
    /\ (pc = "failed" /\ err.at \in {"add_keys_pub", "add_keys_root"}
        /\ err.kind \in {"InvalidThreshold", "ParseInt"}) =>
          LET role == RoleAt(err.at)
              thr == Unwrap(ThresholdOf(Repo, role))
              n == Cardinality(KmsKeys(KeysOf(Repo, role)))
          IN /\ Unwrap(KeysOf(Repo, role)).variant = "kms"
             /\ err.kind = "ParseInt" <=> ~IsNonNegInt(thr)
             /\ err.kind = "InvalidThreshold" => n < Unwrap(ParseUsize(thr))
             /\ \A a \in LogIdx :
                   (log[a].e = i /\ log[a].kind \in {"set-threshold", "add-key"})
                       => role = "root" /\ log[a].role # <<"root">>
             /\ Unwrap(KeysOf(Repo, role)).key_id
                   = Unwrap(KeysOf(Unwrap(input.repo)[i], role)).key_id
    /\ \A a \in LogIdx :
          log[a].kind = "set-threshold" =>
             LET role == IF log[a].role = <<"root">> THEN "root" ELSE "publication"
                 r == Repos[log[a].e]
             IN /\ IsNonNegInt(Unwrap(ThresholdOf(r, role)))
                /\ log[a].arg = Unwrap(ThresholdOf(r, role))
                /\ Cardinality(KmsKeys(KeysOf(r, role)))
                      >= Unwrap(ParseUsize(Unwrap(ThresholdOf(r, role))))

\* C4 witness: add_keys for the Publication role has failed with
\* InvalidThreshold on a configuration that has a key.
C4_Witness ==
    /\ pc = "failed" /\ err.kind = "InvalidThreshold" /\ err.at = "add_keys_pub"
    /\ Cardinality(KmsKeys(Repo.signing_keys)) >= 1

\* The loop of get_stack_outputs sleeps and asks again: a describe-stacks
\* request that can be sent is sent.
FairSpec == Spec /\ WF_vars(DescribeStacks)

\* The key_id of the publication configuration of entry e of c.
PubKeyId(c, e) ==
    IF IsSome(c.repo) /\ e <= Len(Unwrap(c.repo)) /\ IsSome(Unwrap(c.repo)[e].signing_keys)
    THEN Unwrap(Unwrap(c.repo)[e].signing_keys).key_id
    ELSE None

\* C5: a key_id that holds a value is not changed by any step of a run,
\* whatever the order the available keys are iterated in, nor between a
\* completed run and the run started on the configuration it wrote; a
\* key_id changes only in the Publication branch of add_keys_kms, from
\* unset to one of the available keys.
C5_KeyIdStable ==
    [][(run' = run \/ pc = "done") =>
          \A e \in 1..MaxRepos :
              /\ IsSome(PubKeyId(cfg, e)) => PubKeyId(cfg', e) = PubKeyId(cfg, e)
              /\ PubKeyId(cfg', e) # PubKeyId(cfg, e) =>
                    /\ pc = "set_key_id" /\ e = i /\ loc.role = "publication"
                    /\ IsNone(PubKeyId(cfg, e))
                    /\ Unwrap(PubKeyId(cfg', e)) \in KmsKeys(Repo.signing_keys)]_vars

\* C5 witness: the second run, on the configuration a completed run wrote,
\* has been through add_keys for the Publication role; the iteration began
\* with another key than the one key_id holds.
C5_Witness ==
    /\ run = 2 /\ prev.done /\ pc = "add_keys_root"
    /\ IsSome(PubKeyId(input, i))
    /\ Len(loc.key_iter) >= 2
    /\ Head(loc.key_iter) # Unwrap(PubKeyId(cfg, i))
    /\ PubKeyId(cfg, i) = PubKeyId(prev.cfg, i)

UrlFields(r) == <<r.metadata_base_url, r.targets_url, r.root_role_url>>

\* The three URLs of Step 6 for a bucket URL and a raw prefix.
ExpectedUrls(bucket_url, raw_prefix) ==
    <<Some(<<bucket_url>> \o format_prefix(raw_prefix) \o <<"/metadata/">>),
      Some(<<bucket_url>> \o format_prefix(raw_prefix) \o <<"/targets/">>),
      Some(<<bucket_url>> \o format_prefix(raw_prefix) \o <<"/root.json">>)>>

\* C6: no step of a run changes a URL field that holds a value; the
\* URL-assignment step, when it does not fail on the bucket URL, gives each
\* of the three fields that was unset its URL, whatever the other two hold;
\* no other step assigns a URL field.
C6_UrlsWriteOnce ==
    [][run' = run =>
          \A e \in 1..MaxRepos : IsSome(cfg.repo) /\ e <= Len(Repos) =>
              \A f \in 1..3 :
                  LET old == UrlFields(Repos[e])[f]
                      new == UrlFields(Unwrap(cfg'.repo)[e])[f]
                  IN /\ IsSome(old) => new = old
                     /\ new # old => pc = "set_outputs" /\ e = i
                     /\ (pc = "set_outputs" /\ e = i /\ IsNone(old)
                         /\ ~(pc' = "failed" /\ err'.kind = "ParseUrl")) =>
                           new = ExpectedUrls(loc.bucket_url, S3Info(cfg, Repo).s3_prefix)[f]]_vars

\* C6 witness: the step has run on an entry whose metadata_base_url was set
\* and whose targets_url was not.
C6_Witness ==
    /\ run = 1 /\ pc = "write_lock" /\ Len(Repos) = 1
    /\ Unwrap(input.repo)[1].metadata_base_url = Some(PresetUrl)
    /\ IsNone(Unwrap(input.repo)[1].targets_url)
    /\ Repos[1].metadata_base_url = Some(PresetUrl)
    /\ IsSome(Repos[1].targets_url)
    /\ Repos[1].targets_url # Some(PresetUrl)

\* C7 (as claimed): a run over the configuration a completed run wrote
\* sends no further create-stack request, adds no statement to the bucket
\* policy, and ends with the configuration the first run ended with.
C7_RerunIdempotent ==
    (run >= 2 /\ prev.done) =>
        /\ createReqs = prev.createReqs
        /\ policy = prev.policy
        /\ pc = "done" => cfg = prev.cfg

\* The describe-stacks operations of the log.
IsDescribe(a) == log[a].kind = "describe_stacks"

ReportsReady(a) == IsDescribe(a) /\ log[a].ok /\ log[a].arg = <<"CREATE_COMPLETE">>

\* C8: an operation of a later step of an entry is issued only after a
\* describe-stacks response for that entry reported CREATE_COMPLETE, and
\* that response is the last one of the poll; the outputs the later steps
\* work with are those of that response; after a response that reports any
\* other status the run is still polling, and the next operation is another
\* describe-stacks request; once the stack is CREATE_COMPLETE the poll ends.
C8_ReadinessPolling ==
    /\ [](/\ \A b \in LogIdx :
                (StepRank(log[b]) > 5 /\ log[b].kind # "write_lock") =>
                    \E a \in 1..(b - 1) : log[a].e = log[b].e /\ ReportsReady(a)
          /\ \A a \in LogIdx :
                /\ ReportsReady(a) =>
                      /\ log[a].e = i => pc # "describe"
                      /\ a < Len(log) => ~IsDescribe(a + 1)
                /\ (IsDescribe(a) /\ log[a].ok /\ ~ReportsReady(a)) =>
                      IF a = Len(log) THEN pc = "describe"
                      ELSE IsDescribe(a + 1) /\ log[a + 1].e = log[a].e
          /\ pc \in {"get_policy", "put_policy", "create_keys_pub", "upload", "set_outputs"} =>
                /\ loc.last_status = "CREATE_COMPLETE"
                /\ loc.outputs = stackOutputs
                /\ loc.bucket_name = Unwrap(Unwrap(stackOutputs)[1].output_value)
                /\ loc.bucket_url = Unwrap(Unwrap(stackOutputs)[2].output_value))
    /\ (pc = "describe" /\ stackStatus = "CREATE_COMPLETE") ~> (pc # "describe")

\* C8 witness: the creation of the stack has failed and been rolled back;
\* the run has seen that status and is still polling.
C8_Witness ==
    /\ pc = "describe" /\ stackStatus = "ROLLBACK_COMPLETE"
    /\ Len(log) >= 1 /\ IsDescribe(Len(log)) /\ log[Len(log)].ok
    /\ log[Len(log)].arg = <<"ROLLBACK_COMPLETE">>

\* The statement of the claim, written out for a bucket, a formatted prefix
\* and an endpoint id.
GrantStatement(bucket, prefix, vpce) ==
    [Effect |-> "Allow", Principal |-> "*", Action |-> "s3:GetObject",
     Resource |-> <<"arn:aws:s3:::", bucket>> \o prefix \o <<"/", "*">>,
     Condition |-> [op |-> "StringEquals", key |-> "aws:sourceVpce", value |-> vpce]]

\* The statements add_bucket_policy fetched: those of the response, none
\* when there was no policy to fetch.
FetchedStatements == IF IsSome(loc.fetched) THEN Unwrap(loc.fetched).Statement ELSE <<>>

\* C9: the document add_bucket_policy writes holds the fetched statements,
\* in their order and unchanged, and then the one new statement; a fetched
\* policy is the bucket's policy; after put-bucket-policy the bucket's
\* policy is that document.
C9_AppendsOneStatement ==
    pc \in {"put_policy", "create_keys_pub"} =>
        LET written == loc.new_policy.Statement
            grant == GrantStatement(Unwrap(S3Info(cfg, Repo).bucket_name),
                                    format_prefix(S3Info(cfg, Repo).s3_prefix),
                                    Unwrap(S3Info(cfg, Repo).vpc_endpoint_id))
        IN /\ Len(written) = Len(FetchedStatements) + 1
           /\ SubSeq(written, 1, Len(FetchedStatements)) = FetchedStatements
           /\ written[Len(written)] = grant
           /\ loc.get_resp = "ok" => IsSome(loc.fetched)
           /\ loc.get_resp = "no_such_policy" => IsNone(loc.fetched) /\ written = <<grant>>
           /\ pc = "put_policy" => loc.fetched = (IF loc.get_resp = "ok" THEN policy ELSE None)
           /\ pc = "create_keys_pub" => policy = Some(loc.new_policy)

\* C9 witness: the bucket had a policy of one statement; the policy written
\* has two, the first the old one.
C9_Witness ==
    /\ pc = "create_keys_pub" /\ run = 1 /\ loc.get_resp = "ok"
    /\ Len(Unwrap(policy).Statement) = 2
    /\ Unwrap(policy).Statement[1] = OldStatement
    /\ Unwrap(policy).Statement[2].Effect = "Allow"

CloudKinds ==
    {"create_stack", "describe_stacks", "get_bucket_policy", "put_bucket_policy", "put_object"}

\* C10 (as claimed): a cloud request that did not succeed is the last
\* operation of its run, and the run has failed without writing Infra.lock;
\* but for a get-bucket-policy on a bucket that has no policy.
C10_NoFailureSwallowed ==
    \A a \in LogIdx :
        (/\ log[a].kind \in CloudKinds
         /\ ~log[a].ok
         /\ ~(log[a].kind = "get_bucket_policy" /\ log[a].arg = <<"no_such_policy">>)) =>
            /\ a = Len(log)
            /\ pc \in {"failed", "panicked"}
            /\ lockWrites = 0

\* C11 (as claimed): when a run has completed, the digest recorded for its
\* entry is the SHA-512 of the root document the run created, which is the
\* document it uploaded.
C11_DigestOfThisRun ==
    (pc = "done" /\ Len(Repos) >= 1) =>
        \A e \in 1..Len(Repos) :
            /\ IsSome(rootDoc)
            /\ Unwrap(rootDoc).run = run
            /\ Repos[e].root_role_sha512 = Some(Sha512(Unwrap(rootDoc)))
            /\ Unwrap(lock).repo = cfg.repo

\* The storage configurations of c, by name; none when c has no aws.s3.
StorageOf(c) ==
    IF IsSome(c.aws) /\ IsSome(Unwrap(c.aws).s3) THEN Unwrap(Unwrap(c.aws).s3)
    ELSE [n \in {} |-> BaseStorage]

\* C12 (as claimed): a stack_arn or bucket_name that holds a value when a
\* run begins holds that value throughout the run.
C12_StorageOutputsWriteOnce ==
    \A n \in DOMAIN StorageOf(input) :
        /\ IsSome(StorageOf(input)[n].stack_arn) =>
              StorageOf(cfg)[n].stack_arn = StorageOf(input)[n].stack_arn
        /\ IsSome(StorageOf(input)[n].bucket_name) =>
              StorageOf(cfg)[n].bucket_name = StorageOf(input)[n].bucket_name

SignerKinds == {"init", "expire", "set-threshold", "add-key", "sign"}

\* C15: a tuftool command that failed is the last operation of its run:
\* the run has failed with the subprocess error, has issued no put-object
\* for the entry and has written no Infra.lock; when the command was a
\* set-threshold or an add-key of the Publication call, the key_id of the
\* entry is the one the run began with.
C15_SignerFailureAborts ==
    \A a \in LogIdx :
        (log[a].kind \in SignerKinds /\ ~log[a].ok) =>
            /\ a = Len(log)
            /\ pc = "failed"
            /\ err.kind \in {"TuftoolSpawn", "TuftoolResult"}
            /\ lockWrites = 0
            /\ ~\E b \in LogIdx : log[b].e = log[a].e /\ log[b].kind = "put_object"
            /\ \A b \in 1..(a - 1) : log[b] # log[a]
            /\ (log[a].kind \in {"set-threshold", "add-key"} /\ log[a].role # <<"root">>) =>
                  PubKeyId(cfg, log[a].e) = PubKeyId(input, log[a].e)

\* C15 witness: the second add-key of a Publication call has failed; the
\* configuration had no key_id and has none.
C15_Witness ==
    /\ pc = "failed" /\ Len(log) >= 2
    /\ log[Len(log)].kind = "add-key" /\ ~log[Len(log)].ok
    /\ log[Len(log)].role = <<"snapshot", "targets", "timestamp">>
    /\ log[Len(log) - 1].kind = "add-key"
    /\ IsNone(PubKeyId(cfg, i))

\* The set-threshold and add-key commands the run has issued for a role of
\* entry e, in the order it issued them.
RoleOps(e, role) ==
    SelectSeq(log, LAMBDA o : /\ o.e = e
                              /\ o.kind \in {"set-threshold", "add-key"}
                              /\ (role = "root") <=> (o.role = <<"root">>))

\* The state right after a successful add_keys on a kms configuration.
AddKeysDone(role) ==
    IF role = "publication"
    THEN pc = "add_keys_root" /\ Unwrap(Repo.signing_keys).variant = "kms"
    ELSE pc = "sign_root" /\ Unwrap(Repo.root_keys).variant = "kms"

\* C16: after a successful add_keys on a kms configuration with keys K and
\* threshold t, the commands of the role are: for Root one set-threshold
\* (root, t), for Publication three (snapshot, targets, timestamp, each t);
\* then |K| add-key commands, one for each key of K, with the role root,
\* respectively the three Publication roles.
C16_AddKeysCommands ==
    \A role \in {"publication", "root"} :
        AddKeysDone(role) =>
            LET K == KmsKeys(KeysOf(Repo, role))
                t == Unwrap(ThresholdOf(Repo, role))
                ops == RoleOps(i, role)
                roles == IF role = "root" THEN <<"root">>
                         ELSE <<"snapshot", "targets", "timestamp">>
                nT == Len(roles)
            IN /\ Len(ops) = nT + Cardinality(K)
               /\ \A j \in 1..nT :
                     /\ ops[j].kind = "set-threshold" /\ ops[j].ok
                     /\ ops[j].role = <<roles[j]>>
                     /\ ops[j].arg = t
               /\ \A j \in (nT + 1)..Len(ops) :
                     /\ ops[j].kind = "add-key" /\ ops[j].ok
                     /\ ops[j].role = roles
                     /\ ops[j].key \in K
               /\ \A k \in K : Cardinality({j \in (nT + 1)..Len(ops) : ops[j].key = k}) = 1

\* C16 witness: both calls have succeeded, each on two keys.
C16_Witness ==
    /\ pc = "sign_root"
    /\ Cardinality(KmsKeys(Repo.root_keys)) = 2
    /\ Cardinality(KmsKeys(Repo.signing_keys)) = 2
    /\ Len(RoleOps(i, "root")) = 3
    /\ Len(RoleOps(i, "publication")) = 5

\* The sign commands the run has issued for entry e.
SignOps(e) == {a \in LogIdx : log[a].e = e /\ log[a].kind = "sign"}

\* C17: when the run issues put-object for an entry with kms root keys, it
\* has issued exactly one sign command for each root key and for no other
\* key, each successful, each after init, expire and every set-threshold
\* and add-key command of the entry; the object a successful put-object
\* stores is the document as it is after those sign commands.
C17_SignedBeforeUpload ==
    /\ \A a \in LogIdx :
          log[a].kind = "sign" => log[a].key \in KmsKeys(Repos[log[a].e].root_keys)
    /\ \A b \in LogIdx :
          (log[b].kind = "put_object"
           /\ Unwrap(Repos[log[b].e].root_keys).variant = "kms") =>
             LET e == log[b].e
                 R == KmsKeys(Repos[e].root_keys)
             IN /\ \A k \in R : Cardinality({a \in SignOps(e) : log[a].key = k}) = 1
                /\ Cardinality(SignOps(e)) = Cardinality(R)
                /\ \A a \in SignOps(e) :
                      /\ log[a].ok /\ a < b
                      /\ \A c \in LogIdx :
                            (log[c].e = e /\ log[c].kind \in
                                {"init", "expire", "set-threshold", "add-key"}) => c < a
                /\ \E c \in 1..b : log[c].e = e /\ log[c].kind = "init"
                /\ \E c \in 1..b : log[c].e = e /\ log[c].kind = "expire"
                /\ log[b].ok =>
                      \E o \in objects :
                          /\ o.bucket = log[b].arg /\ o.key = "root.json"
                          /\ o.body = Unwrap(rootDoc)
                          /\ o.body.run = run
                          /\ \A k \in R : \E j \in 1..Len(o.body.cmds) :
                                /\ o.body.cmds[j].kind = "sign"
                                /\ o.body.cmds[j].key = k

\* C17 witness: a completed run on two root keys, both of which signed.
C17_Witness ==
    /\ pc = "done" /\ Len(Repos) = 1
    /\ Cardinality(KmsKeys(Repos[1].root_keys)) = 2
    /\ Cardinality(SignOps(1)) = 2
    /\ Cardinality(KmsKeys(Repos[1].signing_keys)) = 2

\* C18: init, expire and set-threshold run with the default region; an
\* add-key for key k runs with the region the available_keys of the call's
\* configuration maps k to, and a sign for key k with the region the root
\* configuration maps k to.
C18_RegionScoping ==
    \A a \in LogIdx :
        /\ log[a].kind \in {"init", "expire", "set-threshold"} => log[a].region = DefaultRegion
        /\ log[a].kind = "add-key" =>
              LET kc == KeysOf(Repos[log[a].e],
                               IF log[a].role = <<"root">> THEN "root" ELSE "publication")
              IN /\ log[a].key \in KmsKeys(kc)
                 /\ log[a].region = AvailableKeys(Unwrap(kc))[log[a].key]
        /\ log[a].kind = "sign" =>
              /\ log[a].key \in KmsKeys(Repos[log[a].e].root_keys)
              /\ log[a].region = AvailableKeys(Unwrap(Repos[log[a].e].root_keys))[log[a].key]

\* C18 witness: add-key has run for two keys of different regions, and
\* sign for two root keys of different regions.
C18_Witness ==
    /\ \E a, b \in LogIdx :
          /\ log[a].kind = "add-key" /\ log[b].kind = "add-key"
          /\ log[a].role = log[b].role /\ log[a].region # log[b].region
          /\ log[a].region # DefaultRegion /\ log[b].region # DefaultRegion
    /\ \E a, b \in LogIdx :
          /\ log[a].kind = "sign" /\ log[b].kind = "sign"
          /\ log[a].region # log[b].region

\* What is wrong with the Outputs member of the ready stack, if anything.
BadOutputs(outs) ==
    \/ IsNone(outs)
    \/ Len(Unwrap(outs)) < 2
    \/ IsNone(Unwrap(outs)[1].output_value)
    \/ IsNone(Unwrap(outs)[2].output_value)

\* C19 (as claimed): after create_s3_bucket the run works with the stack id
\* of its create-stack response and the values of the first and the second
\* output; when the ready stack has fewer than two outputs, or one of the
\* two has no value, the run has failed with ParseResponse and has gone no
\* further.
C19_OutputsOrError ==
    /\ pc \in {"get_policy", "put_policy", "create_keys_pub", "upload", "set_outputs"} =>
          /\ loc.stack_arn = StackId(createReqs)
          /\ loc.bucket_name = Unwrap(Unwrap(stackOutputs)[1].output_value)
          /\ loc.bucket_url = Unwrap(Unwrap(stackOutputs)[2].output_value)
    /\ (Len(log) >= 1 /\ ReportsReady(Len(log)) /\ BadOutputs(stackOutputs)) =>
          /\ pc = "failed"
          /\ err.kind = "ParseResponse"
          /\ err.at = "describe"
          /\ lockWrites = 0

\* A prefix in the form format_prefix is to return.
Normalized(p) ==
    /\ StartsWith(p, <<"/">>)
    /\ ~EndsWith(p, <<"/">>)
    /\ ~EndsWith(p, <<"/", "*">>)

\* C20 (as claimed): the prefix create_infra works with, which is what
\* format_prefix returned for the raw prefix of the storage configuration
\* (here a raw prefix that is not empty), begins with '/' and ends neither
\* in '/' nor in '/*'; for "tuf", "/tuf/" and "/tuf/*" it is "/tuf".
C20_PrefixNormalized ==
    (pc = "check_signing_keys" /\ S3Info(cfg, Repo).s3_prefix # <<>>) =>
        LET raw == S3Info(cfg, Repo).s3_prefix
        IN /\ loc.prefix = format_prefix(raw)
           /\ Normalized(loc.prefix)
           /\ raw \in {<<"t", "u", "f">>, <<"/", "t", "u", "f", "/">>,
                       <<"/", "t", "u", "f", "/", "*">>} =>
                 loc.prefix = <<"/", "t", "u", "f">>

\* The statements of create_infra that are calls of add_keys and sign_root,
\* and the statements inside those calls.
KeyManagerSteps ==
    {"add_keys_pub", "add_keys_root", "set_threshold", "add_key", "set_key_id",
     "sign_root", "sign"}

\* A configuration with the key_id of every publication configuration
\* blanked.
WithoutPubKeyIds(c) ==
    [c EXCEPT !.repo =
        Some([e \in 1..Len(Unwrap(c.repo)) |->
                [Unwrap(c.repo)[e] EXCEPT !.signing_keys =
                    IF IsSome(@) THEN Some([Unwrap(@) EXCEPT !.key_id = None]) ELSE @]])]

\* The key configuration the call the run is in was given.
CalledWith ==
    IF pc = "add_keys_pub" THEN Unwrap(Repo.signing_keys) ELSE Unwrap(Repo.root_keys)

\* Where create_infra goes on after a call that had nothing to do.
AfterNoOp(at) ==
    IF at = "add_keys_pub" THEN "add_keys_root"
    ELSE IF at = "add_keys_root" THEN "sign_root"
    ELSE "upload"

\* What a step of add_keys or sign_root leaves alone.
KeyManagerFrame ==
    /\ WithoutPubKeyIds(cfg') = WithoutPubKeyIds(cfg)
    /\ \A e \in 1..Len(Repos) : e # i => PubKeyId(cfg', e) = PubKeyId(cfg, e)
    /\ cfg' # cfg =>
          /\ pc = "set_key_id" /\ loc.role = "publication"
          /\ Unwrap(Repo.signing_keys).variant = "kms"
    /\ (pc \in {"add_keys_pub", "add_keys_root", "sign_root"}
        /\ CalledWith.variant \in {"file", "ssm"}) =>
          /\ log' = log /\ cfg' = cfg /\ rootDoc' = rootDoc
          /\ pc' # "failed" => pc' = AfterNoOp(pc)

\* C21: a step of add_keys or sign_root leaves the configuration as it is
\* but for the key_id of the entry's publication configuration; the
\* configuration changes only at the end of a Publication call on a kms
\* configuration; a call on a file or ssm configuration issues no command
\* and changes neither the configuration nor the root document.
C21_KeyManagerFrame == [][(pc \in KeyManagerSteps) => KeyManagerFrame]_vars

\* C21 witness: the Publication call has set key_id, the Root call and
\* sign_root have run on a kms configuration, whose key_id is still unset.
C21_Witness ==
    /\ pc = "upload"
    /\ IsSome(PubKeyId(cfg, i)) /\ IsNone(PubKeyId(input, i))
    /\ Unwrap(Repo.root_keys).variant = "kms"
    /\ IsNone(Unwrap(Repo.root_keys).key_id)
    /\ SignOps(i) # {}
    /\ WithoutPubKeyIds(cfg).repo = WithoutPubKeyIds(input).repo

\* C22: when the Publication call on a kms configuration that had no key_id
\* has returned, key_id is a key of the configuration's available_keys;
\* the call fails with KeyCreation exactly on an empty available_keys with
\* threshold 0, after its three set-threshold commands and no add-key, and
\* key_id is then still unset.
C22_KeyIdFromAvailableKeys ==
    /\ (pc = "add_keys_root" /\ Unwrap(Repo.signing_keys).variant = "kms"
        /\ IsNone(PubKeyId(input, i))) =>
          /\ IsSome(PubKeyId(cfg, i))
          /\ Unwrap(PubKeyId(cfg, i)) \in KmsKeys(Repo.signing_keys)
    /\ (pc = "failed" /\ err.kind = "KeyCreation" /\ err.at = "set_key_id") =>
          /\ KmsKeys(Repo.signing_keys) = {}
          /\ ParseUsize(Unwrap(Repo.pub_key_threshold)) = Some(0)
          /\ IsNone(PubKeyId(cfg, i))
          /\ IsNone(PubKeyId(input, i))
          /\ Len(RoleOps(i, "publication")) = 3
          /\ \A j \in 1..3 : /\ RoleOps(i, "publication")[j].kind = "set-threshold"
                             /\ RoleOps(i, "publication")[j].ok
    /\ (pc \in {"set_key_id", "add_keys_root"} /\ Unwrap(Repo.signing_keys).variant = "kms"
        /\ KmsKeys(Repo.signing_keys) = {} /\ IsNone(PubKeyId(input, i))) =>
          pc = "set_key_id"

\* C22 witness: the call on an empty available_keys with threshold 0 has
\* failed after its three set-threshold commands.
C22_Witness ==
    /\ pc = "failed" /\ err.kind = "KeyCreation" /\ err.at = "set_key_id"
    /\ Len(RoleOps(i, "publication")) = 3
    /\ IsNone(PubKeyId(cfg, i))

\* C23 (as claimed): a run that has failed at its second or a later entry
\* has failed with the file-exists error.
C23_SecondEntryFileExists ==
    (i >= 2 /\ pc = "failed") => err.kind = "FileExists"

\* The entry's configuration passes Step 0 and check_signing_key_config.
EntryWellFormed(c, r) ==
    /\ MissingField(c, r) = ""
    /\ ValidKeyConfig(Unwrap(r.signing_keys))
    /\ ValidKeyConfig(Unwrap(r.root_keys))

\* C23 (amended): a run is at its second entry only when the first has been
\* completed (stack, policy, upload) and the root document this run created
\* is at the path; for the second entry the run issues no cloud request and
\* no signer command; it fails there with FileExists when the entry's
\* configuration is well formed and with MissingConfig when it is not; a
\* run over two or more entries writes no Infra.lock.
C23_SecondEntryAborts ==
    /\ \A a \in LogIdx :
          (log[a].e >= 2 /\ log[a].kind # "write_lock") =>
              log[a].kind \in {"check_signing_key_config", "check_root"}
    /\ i >= 2 =>
          /\ IsSome(rootDoc) /\ Unwrap(rootDoc).run = run
          /\ \A k \in {"create_stack", "put_bucket_policy", "init", "put_object"} :
                DoneBefore(Len(log), 1, k)
          /\ UrlsSet(Repos[1])
          /\ pc \in {"resolve", "check_signing_keys", "check_root_keys", "check_root", "failed"}
          /\ pc = "failed" =>
                /\ err.kind \in {"FileExists", "MissingConfig"}
                /\ err.kind = "FileExists" <=> EntryWellFormed(cfg, Repo)
                /\ err.kind = "FileExists" => err.at = "check_root"
    /\ (IsSome(cfg.repo) /\ Len(Repos) >= 2) => lockWrites = 0 /\ pc # "done"

\* C23 witness: the first entry has been completed and the second, well
\* formed, has failed on the document of the first.
C23_Witness ==
    /\ i = 2 /\ pc = "failed" /\ err.kind = "FileExists"
    /\ DoneBefore(Len(log), 1, "put_object")
    /\ EntryWellFormed(cfg, Repo)

\* The put-object request of the entry the run is at.
UploadOp == log[CHOOSE b \in LogIdx : log[b].e = i /\ log[b].kind = "put_object"]

\* The statement the run appended to the bucket policy.
GrantedStatement == Unwrap(policy).Statement[Len(Unwrap(policy).Statement)]

\* A resource pattern that ends in '*' covers the locations that begin with
\* what stands before the '*'.
Covers(pattern, location) ==
    /\ EndsWith(pattern, <<"*">>)
    /\ StartsWith(location, SubSeq(pattern, 1, Len(pattern) - 1))

\* C24: when the upload of an entry has succeeded, with p the formatted
\* prefix of the entry's storage configuration: the object went to bucket
\* name + p under the name root.json; the statement appended to the policy
\* grants bucket name + p + "/*", which covers the object's location; a
\* root_role_url the run filled is bucket URL + p + "/root.json".
C24_LocationConsistency ==
    (i >= 1 /\ pc \in {"set_outputs", "write_lock", "done"}) =>
        LET p == format_prefix(S3Info(cfg, Repo).s3_prefix)
            bucket == Unwrap(S3Info(cfg, Repo).bucket_name)
            bucket_url == Unwrap(Unwrap(stackOutputs)[2].output_value)
        IN /\ UploadOp.ok /\ UploadOp.key = "root.json"
           /\ UploadOp.arg = <<bucket>> \o p
           /\ GrantedStatement.Resource = <<"arn:aws:s3:::", bucket>> \o p \o <<"/", "*">>
           /\ Covers(GrantedStatement.Resource,
                     <<"arn:aws:s3:::">> \o UploadOp.arg \o <<"/", UploadOp.key>>)
           /\ \E o \in objects : o.bucket = <<bucket>> \o p /\ o.key = "root.json"
           /\ (pc # "set_outputs" /\ IsNone(Unwrap(input.repo)[i].root_role_url)) =>
                 Repo.root_role_url = Some(<<bucket_url>> \o p \o <<"/root.json">>)

\* C24 witness: a completed run on the raw prefix "tuf/", the root_role_url
\* filled by the run.
C24_Witness ==
    /\ pc = "done" /\ i = 1
    /\ S3Info(cfg, Repo).s3_prefix = <<"t", "u", "f", "/">>
    /\ IsNone(Unwrap(input.repo)[1].root_role_url)
    /\ IsSome(Repo.root_role_url)

====
